---- MODULE Spec2Model ----
(***************************************************************************)
(* Model of the form submission pipeline of formguias: the Form Store      *)
(* (utils/form_generator.py), the Config Store and the submit_form handler *)
(* with its background thread process_monday_updates (app.py).             *)
(*                                                                         *)
(* Python values are modelled as follows:                                  *)
(*   str    a sequence of one-character strings (so that strip() and the   *)
(*          emptiness tests are computed, not assumed);                    *)
(*   None   the value None below, which is no sequence of characters,      *)
(*          where a str is expected, and NoneDict where a dict is;         *)
(*   dict   a function whose DOMAIN is the set of keys that are present    *)
(*          (records are such functions);                                  *)
(*   list   a sequence.                                                    *)
(***************************************************************************)
EXTENDS Integers, Sequences, FiniteSets, TLC

VARIABLES
    forms,      \* the Forms folder: form id -> file content (ids with a file)
    config,     \* setup/config.json: the document, or ConfigMissing
    req,        \* per request slot: the submit_form invocation
    thread,     \* per request slot: its process_monday_updates thread
    calls,      \* per request slot: the remote calls its thread has issued
    next_id,    \* the remote board: number of items created so far
    fn_in,      \* inputs of the pure functions (specification SpecBatch)
    fn_out,     \* their results
    deleter     \* per delete call in progress: the DELETE /api/forms/<id> call

vars == <<forms, config, req, thread, calls, next_id, fn_in, fn_out, deleter>>

-----------------------------------------------------------------------------
(* Python values *)

None == <<"None">>

EmptyDict == << >>

\* d.get(k)
Get(d, k) == IF k \in DOMAIN d THEN d[k] ELSE None

\* d.get(k, default)
GetOr(d, k, default) == IF k \in DOMAIN d THEN d[k] ELSE default

\* None where a dict is expected
NoneDict == [none |-> TRUE]

\* bool(v) for v a str or None
Truthy(v) == v # None /\ v # << >>

\* bool(d) for d a dict or None
TruthyDict(d) == d # NoneDict /\ d # EmptyDict

Whitespace == {" ", "\t", "\n"}

RECURSIVE lstrip(_)
lstrip(s) ==
    IF s # << >> /\ Head(s) \in Whitespace THEN lstrip(Tail(s)) ELSE s

RECURSIVE rstrip(_)
rstrip(s) ==
    IF s # << >> /\ s[Len(s)] \in Whitespace
    THEN rstrip(SubSeq(s, 1, Len(s) - 1))
    ELSE s

\* str.strip()
strip(s) == rstrip(lstrip(s))

-----------------------------------------------------------------------------
(* String literals of app.py *)

yes == <<"y", "e", "s">>
no == <<"n", "o">>
Sim == <<"S", "i", "m">>
Nao == <<"N", "ã", "o">>

FallbackName ==
    <<"R","e","s","p","o","s","t","a"," ","d","o"," ",
      "F","o","r","m","u","l","á","r","i","o">>

text_mkrb17ct == <<"t","e","x","t","_","m","k","r","b","1","7","c","t">>
text_mksq2j87 == <<"t","e","x","t","_","m","k","s","q","2","j","8","7">>
text_mkrjdnry == <<"t","e","x","t","_","m","k","r","j","d","n","r","y">>

DadosNaoEncontrados ==
    <<"D","a","d","o","s"," ","n","ã","o"," ",
      "e","n","c","o","n","t","r","a","d","o","s">>
ErroAoCarregarDados ==
    <<"E","r","r","o"," ","a","o"," ",
      "c","a","r","r","e","g","a","r"," ","d","a","d","o","s">>
DadosNaoDisponiveis ==
    <<"D","a","d","o","s"," ","n","ã","o"," ",
      "d","i","s","p","o","n","í","v","e","i","s">>
ConfiguracaoIncompleta ==
    <<"C","o","n","f","i","g","u","r","a","ç","ã","o"," ",
      "i","n","c","o","m","p","l","e","t","a">>

\* the list column_value is tested against
SentinelValues ==
    {<< >>, DadosNaoEncontrados, ErroAoCarregarDados,
     DadosNaoDisponiveis, ConfiguracaoIncompleta}

-----------------------------------------------------------------------------
(* process_monday_updates: the local computations *)

\* 'description' of an update: what the entry was built from (the source
\* formats it into a log text; only the origin is kept here)
Description(kind, of) == [kind |-> kind, of |-> of]

\* item_name: header Viagem, or else the webhook's pulseName with a default
item_name(stored_form_data) ==
    LET header_data == GetOr(stored_form_data, "header_data", EmptyDict)
        webhook_data == GetOr(stored_form_data, "webhook_data", EmptyDict)
        event == GetOr(webhook_data, "event", EmptyDict)
    IN  IF Truthy(Get(header_data, "Viagem"))
        THEN header_data["Viagem"]
        ELSE GetOr(event, "pulseName", FallbackName)

\* one header field: an update when the field is truthy
HeaderUpdate(header_data, key, column_id) ==
    IF Truthy(Get(header_data, key))
    THEN << [column_id |-> column_id, value |-> header_data[key],
             description |-> Description("header", key)] >>
    ELSE << >>

\* the three header updates, in the order Destino, Data, Cliente
HeaderUpdates(header_data) ==
    HeaderUpdate(header_data, "Destino", text_mkrb17ct)
    \o HeaderUpdate(header_data, "Data", text_mksq2j87)
    \o HeaderUpdate(header_data, "Cliente", text_mkrjdnry)

\* mutant of MapResponse: every answer is passed on as it is
MapResponse_Verbatim(response_value) == response_value

\* the display-language mapping of an answer
MapResponse(response_value) ==
    IF response_value = yes THEN Sim
    ELSE IF response_value = no THEN Nao
    ELSE response_value

\* the answer update of one (non-divider) question
AnswerUpdate(question, submission_data) ==
    LET question_id == Get(question, "id")
        destination_column == Get(question, "destination_column")
        response_value == submission_data[question_id]
    IN  IF /\ question_id \in DOMAIN submission_data
           /\ Truthy(response_value)
           /\ Truthy(strip(response_value))
           /\ Truthy(destination_column)
           /\ Truthy(strip(destination_column))
        THEN << [column_id |-> destination_column,
                 value |-> MapResponse(response_value),
                 description |-> Description("answer", question_id)] >>
        ELSE << >>

\* mutant of ColumnTextUpdate: the column value is not tested against the
\* list of error texts
ColumnTextUpdate_AnyValue(question) ==
    LET question_destination_column ==
            Get(question, "question_destination_column")
        column_value == GetOr(question, "column_value", << >>)
    IN  IF /\ Get(question, "type") = "monday_column"
           /\ Truthy(question_destination_column)
           /\ Truthy(strip(question_destination_column))
           /\ Truthy(column_value)
        THEN << [column_id |-> question_destination_column,
                 value |-> column_value,
                 description |-> Description("column_text", Get(question, "id"))] >>
        ELSE << >>

\* the column-text update of one monday_column question
ColumnTextUpdate(question) ==
    LET question_id == Get(question, "id")
        question_destination_column ==
            Get(question, "question_destination_column")
        column_value == GetOr(question, "column_value", << >>)
    IN  IF /\ Get(question, "type") = "monday_column"
           /\ Truthy(question_destination_column)
           /\ Truthy(strip(question_destination_column))
           /\ Truthy(column_value)
           /\ column_value \notin SentinelValues
        THEN << [column_id |-> question_destination_column,
                 value |-> column_value,
                 description |-> Description("column_text", question_id)] >>
        ELSE << >>

\* mutant of QuestionUpdates: dividers are treated like any question
QuestionUpdates_KeepsDividers(question, submission_data) ==
    AnswerUpdate(question, submission_data) \o ColumnTextUpdate(question)

\* one iteration of the loop over the questions
QuestionUpdates(question, submission_data) ==
    IF Get(question, "type") = "divider"
    THEN << >>
    ELSE AnswerUpdate(question, submission_data) \o ColumnTextUpdate(question)

RECURSIVE CollectUpdates(_, _)
CollectUpdates(questions, submission_data) ==
    IF questions = << >>
    THEN << >>
    ELSE QuestionUpdates(Head(questions), submission_data)
         \o CollectUpdates(Tail(questions), submission_data)

\* mutant of updates_to_process: an answer posted under the key zz is sent
\* to the column of that name
updates_to_process_EveryAnswer(stored_form_data, submission_data) ==
    HeaderUpdates(GetOr(stored_form_data, "header_data", EmptyDict))
    \o CollectUpdates(GetOr(stored_form_data, "questions", << >>),
                      submission_data)
    \o (IF "zz" \in DOMAIN submission_data
        THEN << [column_id |-> <<"z", "z">>, value |-> submission_data["zz"],
                 description |-> Description("answer", "zz")] >>
        ELSE << >>)

\* updates_to_process as it stands when the sending loop starts
updates_to_process(stored_form_data, submission_data) ==
    HeaderUpdates(GetOr(stored_form_data, "header_data", EmptyDict))
    \o CollectUpdates(GetOr(stored_form_data, "questions", << >>),
                      submission_data)

\* the sending loop's "Skip empty values" test
SkipsUpdate(update) ==
    ~Truthy(update.value) \/ strip(update.value) = << >>

-----------------------------------------------------------------------------
(* FormGenerator.validate_form_submission *)

RECURSIVE ValidateQuestions(_, _)
ValidateQuestions(questions, submission_data) ==
    IF questions = << >>
    THEN << >>
    ELSE LET question == Head(questions)
             question_id == Get(question, "id")
             required == GetOr(question, "required", FALSE)
             missing ==
                 \/ question_id \notin DOMAIN submission_data
                 \/ strip(submission_data[question_id]) = << >>
         IN  (IF required /\ missing THEN <<question_id>> ELSE << >>)
             \o ValidateQuestions(Tail(questions), submission_data)

\* the list of errors, one per offending question (named by question id)
validate_form_submission(form_data, submission_data) ==
    ValidateQuestions(GetOr(form_data, "questions", << >>), submission_data)

-----------------------------------------------------------------------------
(* FormGenerator.generate_html_form: the questions                         *)
(* The markup of a question is kept as the list of its widgets, each with  *)
(* the name of its input, its label and its choices; the empty string is   *)
(* the empty list.                                                         *)

Widget(kind, question_id, label, required, choices) ==
    [kind |-> kind, name |-> question_id, label |-> label,
     required |-> required, choices |-> choices]

\* the text the other question types are labelled with
QuestionText(question) == GetOr(question, "text", << >>)

\* _generate_text_question: one text input named by the question id
generate_text_question(question_id, question, required) ==
    << Widget("text", question_id, QuestionText(question), required, << >>) >>

\* _generate_textarea_question
generate_textarea_question(question_id, question, required) ==
    << Widget("textarea", question_id, QuestionText(question), required, << >>) >>

\* _generate_dropdown_question (the options are not looked into)
generate_dropdown_question(question_id, question, required) ==
    << Widget("select", question_id, QuestionText(question), required, << >>) >>

\* _generate_yesno_question: two radio inputs, yes and no
generate_yesno_question(question_id, question, required) ==
    << Widget("radio", question_id, QuestionText(question), required,
              <<yes, no>>) >>

\* range(1, 11)
RatingChoices == [i \in 1..10 |-> i]

\* _generate_rating_question: ten circles and a hidden input
generate_rating_question(question_id, question, required) ==
    << Widget("rating", question_id, QuestionText(question), required,
              RatingChoices) >>

\* invalid_values of _generate_monday_column_question
invalid_values ==
    {ErroAoCarregarDados, DadosNaoEncontrados, DadosNaoDisponiveis,
     ConfiguracaoIncompleta, None, << >>}

\* mutant of generate_monday_column_question: the error texts are shown
\* like any value
generate_monday_column_question_ShowsErrors(question_id, question, required) ==
    LET column_value == GetOr(question, "column_value", << >>)
    IN  IF ~Truthy(column_value) \/ strip(column_value) = << >>
        THEN << >>
        ELSE << Widget("rating", question_id, strip(column_value), required,
                       RatingChoices) >>

\* _generate_monday_column_question: nothing for an empty or error value,
\* otherwise a rating labelled with the trimmed column value
generate_monday_column_question(question_id, question, required) ==
    LET column_value == GetOr(question, "column_value", << >>)
    IN  IF \/ ~Truthy(column_value)
           \/ strip(column_value) = << >>
           \/ column_value \in invalid_values
        THEN << >>
        ELSE << Widget("rating", question_id, strip(column_value), required,
                       RatingChoices) >>

\* one iteration of the loop over the questions (lines 64-88)
RenderQuestion(question) ==
    LET question_id == Get(question, "id")
        question_type == GetOr(question, "type", "text")
        required == GetOr(question, "required", FALSE)
    IN  CASE question_type = "text" ->
                generate_text_question(question_id, question, required)
          [] question_type = "longtext" ->
                generate_textarea_question(question_id, question, required)
          [] question_type = "dropdown" ->
                generate_dropdown_question(question_id, question, required)
          [] question_type = "yesno" ->
                generate_yesno_question(question_id, question, required)
          [] question_type = "rating" ->
                generate_rating_question(question_id, question, required)
          [] question_type = "monday_column" ->
                generate_monday_column_question(question_id, question, required)
          [] OTHER ->
                generate_text_question(question_id, question, required)

\* the markup of the questions of a form, question by question
generate_html_form(form_data) ==
    LET questions == GetOr(form_data, "questions", << >>)
    IN  [i \in 1..Len(questions) |-> RenderQuestion(questions[i])]

-----------------------------------------------------------------------------
(* Bounds and the data the specifications draw from *)

\* request slots: submissions that may be in progress together
MaxReq == 2

\* longest question list of the forms SpecBatch enumerates exhaustively
MaxQuestions == 2

\* delete calls that may be in progress together
MaxDel == 2

Reqs == 1..MaxReq

Dels == 1..MaxDel

FormIds == {"f1", "f2"}

QIds == <<"q1", "q2", "q3", "q4">>

TripX == <<"T", "r", "i", "p", " ", "X">>
TripA == <<"T", "r", "i", "p", " ", "A">>
Paris == <<"P", "a", "r", "i", "s">>
Blank == <<" ">>
Acme == <<"A", "c", "m", "e">>
May1 == <<"0", "1", "/", "0", "5">>
Hotel == <<"H", "o", "t", "e", "l">>
HotelPadded == <<" ", "H", "o", "t", "e", "l", " ">>
Seven == <<"7">>
colA == <<"c", "o", "l", "A">>
colB == <<"c", "o", "l", "B">>
Board123 == <<"1", "2", "3">>
Pulse999 == <<"9", "9", "9">>

\* the id the remote board gives its n-th item
ItemId(n) == <<"i", "t", "e", "m">> \o << <<"0","1","2","3","4","5","6","7","8","9">>[n + 1] >>

\* all dicts over a subset of keys, each key with a value from vals[key]
DictsOver(keys, vals) ==
    UNION { {d \in [S -> UNION {vals[k] : k \in S}] : \A k \in S : d[k] \in vals[k]}
            : S \in SUBSET keys }

\* stored forms of the running system
FormGuias ==
    [type |-> "guias",
     header_data |-> [Viagem |-> TripX, Destino |-> Paris, Data |-> Blank],
     webhook_data |-> [event |-> [pulseId |-> Pulse999, pulseName |-> TripA]],
     questions |->
        << [id |-> "q1", type |-> "yesno", required |-> TRUE,
            destination_column |-> colA],
           [id |-> "q2", type |-> "divider", required |-> FALSE,
            destination_column |-> colB] >>]

FormNoPulse ==
    [type |-> "guias",
     header_data |-> EmptyDict,
     webhook_data |-> [event |-> [pulseName |-> TripA]],
     questions |->
        << [id |-> "q1", type |-> "yesno", required |-> FALSE,
            destination_column |-> colA] >>]

\* the form data the webhook side stores under each id
DataOf(form_id) ==
    IF form_id = "f1" THEN FormGuias ELSE FormNoPulse

\* answers a browser may post: none, or one for each question and one under
\* a key that is no question's id
SampleAnswers == {EmptyDict, [q1 |-> yes, q2 |-> Seven, zz |-> Hotel]}

\* config documents an administrator may save
ConfigBoards ==
    [guias |-> [board_a |-> << >>, board_b |-> Board123, link_column |-> << >>,
                questions |-> << >>],
     clientes |-> [board_a |-> << >>, board_b |-> << >>, link_column |-> << >>,
                   questions |-> << >>]]

ConfigNoBoards ==
    [guias |-> [board_a |-> << >>, board_b |-> << >>, link_column |-> << >>,
                questions |-> << >>]]

SampleConfigs == {ConfigBoards, ConfigNoBoards}

\* setup/config.json does not exist
ConfigMissing == [missing |-> TRUE]

\* a form file that json.load cannot read
Unreadable == [unreadable |-> TRUE]

-----------------------------------------------------------------------------
(* Form Store: utils/form_generator.py *)

\* mutant of get_form_data: an id without a file yields the form data of
\* that id all the same
get_form_data_Stale(form_id) ==
    IF form_id \in DOMAIN forms
    THEN IF forms[form_id] = Unreadable THEN NoneDict ELSE forms[form_id]
    ELSE [id |-> form_id, status |-> "active"] @@ DataOf(form_id)

\* FormGenerator.get_form_data: the parsed file, None when there is no file
\* or it cannot be read
get_form_data(form_id) ==
    IF form_id \in DOMAIN forms
    THEN IF forms[form_id] = Unreadable THEN NoneDict ELSE forms[form_id]
    ELSE NoneDict

\* no delete call
NoDeleter ==
    [pc |-> "idle", form_id |-> "", exists |-> FALSE, after |-> {},
     result |-> "", status |-> 0, recreated |-> FALSE]

\* a form was stored under form_id: the delete calls made for that id so far
\* are marked (kept for the properties)
MarkRecreated(form_id) ==
    [d \in DOMAIN deleter |->
        IF deleter[d].form_id = form_id
        THEN [deleter[d] EXCEPT !.recreated = TRUE]
        ELSE deleter[d]]

\* FormGenerator.generate_form: a fresh id, the metadata, one file written
\* (created_at, a wall-clock timestamp, is left out of the stored record)
GenerateForm(form_id) ==
    /\ form_id \notin DOMAIN forms
    /\ forms' = forms @@
           (form_id :> ([id |-> form_id, status |-> "active"] @@ DataOf(form_id)))
    /\ deleter' = MarkRecreated(form_id)
    /\ UNCHANGED <<config, req, thread, calls, next_id, fn_in, fn_out>>

\* mutant of RemoveFile: the file is left where it is
RemoveFile_KeepsFile(form_id) == forms

\* os.remove(form_file_path): the folder without the file of form_id
RemoveFile(form_id) == [f \in DOMAIN forms \ {form_id} |-> forms[f]]

\* FormGenerator.delete_form as called by DELETE /api/forms/<id>, when
\* nothing else touches the file between its test and its removal
DeleteForm(form_id) ==
    /\ form_id \in DOMAIN forms
    /\ forms' = RemoveFile(form_id)
    /\ UNCHANGED <<config, req, thread, calls, next_id, fn_in, fn_out, deleter>>

\* the status DELETE /api/forms/<id> answers with (app.py lines 105-109)
DeleteStatus(success) == IF success = "True" THEN 200 ELSE 404

\* the delete calls that have returned
Returned == {d \in DOMAIN deleter : deleter[d].pc = "returned"}

\* delete calls are numbered in the order they start
NextDeleter(d) ==
    /\ deleter[d].pc = "idle"
    /\ d > 1 => deleter[d - 1].pc # "idle"

Return(d, success) ==
    [deleter EXCEPT ![d].pc = "returned", ![d].result = success,
                    ![d].status = DeleteStatus(success)]

\* delete_form, lines 514-516 and 520: there is no file, False is returned
DeleteAbsent(d, form_id) ==
    /\ NextDeleter(d)
    /\ form_id \notin DOMAIN forms
    /\ deleter' = [deleter EXCEPT ![d] =
                      [NoDeleter EXCEPT !.pc = "returned", !.form_id = form_id,
                                        !.after = Returned, !.result = "False",
                                        !.status = DeleteStatus("False")]]
    /\ UNCHANGED <<forms, config, req, thread, calls, next_id, fn_in, fn_out>>

\* delete_form, lines 514-516: os.path.exists finds the file
DeleteExists(d, form_id) ==
    /\ NextDeleter(d)
    /\ form_id \in DOMAIN forms
    /\ deleter' = [deleter EXCEPT ![d] =
                      [NoDeleter EXCEPT !.pc = "checked", !.form_id = form_id,
                                        !.exists = TRUE, !.after = Returned]]
    /\ UNCHANGED <<forms, config, req, thread, calls, next_id, fn_in, fn_out>>

\* mutant of AfterRemoveRaised: the exception is not caught in delete_form
\* and the route answers 500
AfterRemoveRaised_Escapes(d) ==
    [deleter EXCEPT ![d].pc = "returned", ![d].status = 500]

\* delete_form, lines 521-523: os.remove raised, False is returned
AfterRemoveRaised(d) == Return(d, "False")

\* delete_form, lines 517-519: the file is removed, True is returned
DeleteRemove(d) ==
    /\ deleter[d].pc = "checked"
    /\ deleter[d].form_id \in DOMAIN forms
    /\ forms' = RemoveFile(deleter[d].form_id)
    /\ deleter' = Return(d, "True")
    /\ UNCHANGED <<config, req, thread, calls, next_id, fn_in, fn_out>>

\* delete_form, lines 517 and 521-523: the file has gone since the test,
\* os.remove raises FileNotFoundError
DeleteRemoveRaises(d) ==
    /\ deleter[d].pc = "checked"
    /\ deleter[d].form_id \notin DOMAIN forms
    /\ deleter' = AfterRemoveRaised(d)
    /\ UNCHANGED <<forms, config, req, thread, calls, next_id, fn_in, fn_out>>

-----------------------------------------------------------------------------
(* Config Store: /api/config *)

\* mutant of WrittenConfig: the posted document is merged into the stored one
WrittenConfig_Merged(document) ==
    IF config = ConfigMissing THEN document ELSE document @@ config

\* the content of setup/config.json after open(.., 'w') and json.dump of the
\* posted document (lines 78-81): the document, whatever the file held
WrittenConfig(document) == document

\* POST /api/config
SaveConfig(document) ==
    /\ config # document
    /\ config' = WrittenConfig(document)
    /\ UNCHANGED <<forms, req, thread, calls, next_id, fn_in, fn_out, deleter>>

\* GET /api/config (lines 68-74): the stored document, or 404 when the file
\* does not exist
config_api_get ==
    IF config = ConfigMissing
    THEN [status |-> 404, body |-> NoneDict]
    ELSE [status |-> 200, body |-> config]

-----------------------------------------------------------------------------
(* submit_form *)

\* what the lookup of line 138 found on disk (kept for the properties)
Lookup(form_id) ==
    IF form_id \notin DOMAIN forms THEN "absent"
    ELSE IF forms[form_id] = Unreadable THEN "unreadable"
    ELSE "readable"

IdleReq ==
    [pc |-> "idle", form_id |-> "", lookup |-> "", stored_form_data |-> NoneDict,
     submission_data |-> EmptyDict, response |-> 0]

NoThread ==
    [pc |-> "none", exit |-> "", form_config |-> NoneDict, new_item_id |-> None,
     updates_to_process |-> << >>, i |-> 0,
     successful_updates |-> 0, failed_updates |-> 0]

\* slots are taken in order: slot r is used only once slot r - 1 is in use
SlotFree(r) ==
    /\ req[r].pc = "idle"
    /\ r > 1 => req[r - 1].pc # "idle"

\* lines 134-141: the form is looked up and is not there (the posted
\* answers are not read on this path)
SubmitNotFound(r, form_id) ==
    /\ SlotFree(r)
    /\ ~TruthyDict(get_form_data(form_id))
    /\ req' = [req EXCEPT ![r] =
                  [pc |-> "returned", form_id |-> form_id,
                   lookup |-> Lookup(form_id),
                   stored_form_data |-> NoneDict,
                   submission_data |-> EmptyDict, response |-> 404]]
    /\ UNCHANGED <<forms, config, thread, calls, next_id, fn_in, fn_out, deleter>>

\* lines 134-316: the form is read, the thread is created and started
SubmitStart(r, form_id, submission_data) ==
    /\ SlotFree(r)
    /\ TruthyDict(get_form_data(form_id))
    /\ req' = [req EXCEPT ![r] =
                  [pc |-> "started", form_id |-> form_id,
                   lookup |-> Lookup(form_id),
                   stored_form_data |-> get_form_data(form_id),
                   submission_data |-> submission_data, response |-> 0]]
    /\ thread' = [thread EXCEPT ![r] = [NoThread EXCEPT !.pc = "start"]]
    /\ UNCHANGED <<forms, config, calls, next_id, fn_in, fn_out, deleter>>

\* mutant of MayReturn: the handler joins the thread before it returns
MayReturn_AfterThread(r) == req[r].pc = "started" /\ thread[r].pc = "done"

\* when the handler goes on to its return statement: as soon as
\* thread.start() has returned
MayReturn(r) == req[r].pc = "started"

\* mutant of SubmitReturn: the form is marked as submitted in the Form Store
SubmitReturn_MarksSubmitted(r) ==
    /\ MayReturn(r)
    /\ req' = [req EXCEPT ![r].pc = "returned", ![r].response = 200]
    /\ forms' = IF req[r].form_id \in DOMAIN forms
                THEN [forms EXCEPT ![req[r].form_id] =
                         [req[r].stored_form_data EXCEPT !.status = "submitted"]]
                ELSE forms
    /\ UNCHANGED <<config, thread, calls, next_id, fn_in, fn_out, deleter>>

\* lines 318-321: the success page is returned
SubmitReturn(r) ==
    /\ MayReturn(r)
    /\ req' = [req EXCEPT ![r].pc = "returned", ![r].response = 200]
    /\ UNCHANGED <<forms, config, thread, calls, next_id, fn_in, fn_out, deleter>>

-----------------------------------------------------------------------------
(* process_monday_updates: the thread of request slot r *)

Exit(t, why) == [t EXCEPT !.pc = "done", !.exit = why]

\* item_id: event.pulseId of the snapshot's webhook payload
item_id(stored_form_data) ==
    Get(GetOr(GetOr(stored_form_data, "webhook_data", EmptyDict),
              "event", EmptyDict), "pulseId")

\* mutant of AfterLoadConfig: only board_b is tested, not item_id
AfterLoadConfig_NoItemCheck(t, stored_form_data, doc) ==
    IF doc = ConfigMissing THEN Exit(t, "error")
    ELSE LET form_config ==
                 GetOr(doc, Get(stored_form_data, "type"), EmptyDict)
             loaded == [t EXCEPT !.form_config = form_config]
         IN  IF ~Truthy(Get(form_config, "board_b"))
             THEN Exit(loaded, "no_board_b")
             ELSE [loaded EXCEPT !.pc = "create"]

\* the thread after it has read the config file (lines 157-176); doc is the
\* file's document, or ConfigMissing when open() raises
AfterLoadConfig(t, stored_form_data, doc) ==
    IF doc = ConfigMissing THEN Exit(t, "error")
    ELSE LET form_type == Get(stored_form_data, "type")
             form_config == GetOr(doc, form_type, EmptyDict)
             board_b == Get(form_config, "board_b")
             loaded == [t EXCEPT !.form_config = form_config]
         IN  IF ~Truthy(board_b) THEN Exit(loaded, "no_board_b")
             ELSE IF ~(Truthy(item_id(stored_form_data)) /\ Truthy(board_b))
                  THEN Exit(loaded, "missing")
             ELSE [loaded EXCEPT !.pc = "create"]

\* lines 157-176: the config is reloaded, board and item id are resolved
WorkerLoadConfig(r) ==
    /\ thread[r].pc = "start"
    /\ thread' = [thread EXCEPT ![r] =
                     AfterLoadConfig(@, req[r].stored_form_data, config)]
    /\ UNCHANGED <<forms, config, req, calls, next_id, fn_in, fn_out, deleter>>

\* board_b = form_config['board_b'] (line 172)
board_b(r) == thread[r].form_config["board_b"]

\* mutant of CreateCall: the form is read from the Form Store again when
\* the item is created
CreateCall_RereadsStore(r, returned, raised) ==
    [op |-> "create_item", board_id |-> board_b(r),
     item_name |-> item_name(get_form_data(req[r].form_id)),
     returned |-> returned, raised |-> raised]

\* the create_item call the thread issues (line 183); returned and raised
\* record how the remote board answered it
CreateCall(r, returned, raised) ==
    [op |-> "create_item", board_id |-> board_b(r),
     item_name |-> item_name(req[r].stored_form_data),
     returned |-> returned, raised |-> raised]

\* what the remote board may answer to create_item: a result carrying the
\* new item's id, a result without one, or nothing
CreateResults ==
    {[create_item |-> [id |-> ItemId(next_id + 1)]],
     [create_item |-> EmptyDict], NoneDict}

\* create_result.get('create_item', {}).get('id') of a result
ResultId(create_result) ==
    IF create_result = NoneDict THEN None
    ELSE Get(GetOr(create_result, "create_item", EmptyDict), "id")

\* mutant of AfterCreate: the result is used without testing it for an id
AfterCreate_Unchecked(t, r, create_result) ==
    LET updates == updates_to_process(req[r].stored_form_data,
                                      req[r].submission_data)
    IN  [t EXCEPT !.pc = IF updates = << >> THEN "done" ELSE "update",
                  !.exit = IF updates = << >> THEN "completed" ELSE "",
                  !.new_item_id = ResultId(create_result),
                  !.updates_to_process = updates,
                  !.i = 1]

\* the thread after create_item has returned create_result (lines 184-275)
AfterCreate(t, r, create_result) ==
    IF TruthyDict(create_result) /\ Truthy(ResultId(create_result))
    THEN LET updates == updates_to_process(req[r].stored_form_data,
                                           req[r].submission_data)
         IN  [t EXCEPT !.pc = IF updates = << >> THEN "done" ELSE "update",
                       !.exit = IF updates = << >> THEN "completed" ELSE "",
                       !.new_item_id = create_result["create_item"]["id"],
                       !.updates_to_process = updates,
                       !.i = 1]
    ELSE Exit(t, "create_failed")

\* lines 183-275: create_item returns
WorkerCreateItem(r) ==
    /\ thread[r].pc = "create"
    /\ \E create_result \in CreateResults :
          /\ thread' = [thread EXCEPT ![r] = AfterCreate(@, r, create_result)]
          /\ next_id' = IF Truthy(ResultId(create_result))
                        THEN next_id + 1 ELSE next_id
          /\ calls' = [calls EXCEPT ![r] =
                Append(@, CreateCall(r, ResultId(create_result), FALSE))]
    /\ UNCHANGED <<forms, config, req, fn_in, fn_out, deleter>>

\* line 183 raises: the outer handler (lines 311-312) ends the thread
WorkerCreateItemRaises(r) ==
    /\ thread[r].pc = "create"
    /\ thread' = [thread EXCEPT ![r] = Exit(@, "error")]
    /\ calls' = [calls EXCEPT ![r] = Append(@, CreateCall(r, None, TRUE))]
    /\ UNCHANGED <<forms, config, req, next_id, fn_in, fn_out, deleter>>

\* mutant of Advance: the loop does not leave its last update
Advance_StaysOnLast(t) ==
    IF t.i = Len(t.updates_to_process) THEN t ELSE [t EXCEPT !.i = @ + 1]

\* the loop variable moves to the next update, or the loop ends (line 301)
Advance(t) ==
    IF t.i = Len(t.updates_to_process)
    THEN [t EXCEPT !.pc = "done", !.exit = "completed", !.i = @ + 1]
    ELSE [t EXCEPT !.i = @ + 1]

\* the update the loop is at
CurrentUpdate(r) == thread[r].updates_to_process[thread[r].i]

\* mutant of UpdateCall: the update goes to the originating item
UpdateCall_OriginItem(r, raised) ==
    [op |-> "update_item_column", board_id |-> board_b(r),
     item_id |-> item_id(req[r].stored_form_data),
     column_id |-> CurrentUpdate(r).column_id,
     value |-> CurrentUpdate(r).value,
     entry |-> thread[r].i, raised |-> raised]

\* the update_item_column call for the current update (lines 289-294);
\* entry and raised record which batch entry it is for and how it ended
UpdateCall(r, raised) ==
    [op |-> "update_item_column", board_id |-> board_b(r),
     item_id |-> thread[r].new_item_id,
     column_id |-> CurrentUpdate(r).column_id,
     value |-> CurrentUpdate(r).value,
     entry |-> thread[r].i, raised |-> raised]

\* lines 285-287: an empty value is skipped without a call
WorkerSkipUpdate(r) ==
    /\ thread[r].pc = "update"
    /\ SkipsUpdate(CurrentUpdate(r))
    /\ thread' = [thread EXCEPT ![r] = Advance(@)]
    /\ UNCHANGED <<forms, config, req, calls, next_id, fn_in, fn_out, deleter>>

\* the thread after an update_item_column call that returned
AfterUpdateOk(t) == Advance([t EXCEPT !.successful_updates = @ + 1])

\* mutant of AfterUpdateRaised: the first failure ends the loop
AfterUpdateRaised_Aborts(t) ==
    Exit([t EXCEPT !.failed_updates = @ + 1], "error")

\* the thread after an update_item_column call that raised (lines 297-299)
AfterUpdateRaised(t) == Advance([t EXCEPT !.failed_updates = @ + 1])

\* lines 289-296: update_item_column returns
WorkerUpdateOk(r) ==
    /\ thread[r].pc = "update"
    /\ ~SkipsUpdate(CurrentUpdate(r))
    /\ calls' = [calls EXCEPT ![r] = Append(@, UpdateCall(r, FALSE))]
    /\ thread' = [thread EXCEPT ![r] = AfterUpdateOk(@)]
    /\ UNCHANGED <<forms, config, req, next_id, fn_in, fn_out, deleter>>

\* lines 289-299: update_item_column raises
WorkerUpdateRaises(r) ==
    /\ thread[r].pc = "update"
    /\ ~SkipsUpdate(CurrentUpdate(r))
    /\ calls' = [calls EXCEPT ![r] = Append(@, UpdateCall(r, TRUE))]
    /\ thread' = [thread EXCEPT ![r] = AfterUpdateRaised(@)]
    /\ UNCHANGED <<forms, config, req, next_id, fn_in, fn_out, deleter>>

-----
(* The running system *)

NoInput == [stored_form_data |-> NoneDict, submission_data |-> EmptyDict]
NoOutput == [done |-> FALSE]

\* stores the system may start from: every id either has no file, an
\* unreadable file (f2 only) or the form generate_form stored for it
InitialStores ==
    { [f \in S |-> IF f \in U THEN Unreadable
                   ELSE [id |-> f, status |-> "active"] @@ DataOf(f)]
      : S \in SUBSET FormIds, U \in SUBSET {"f2"} }

Init ==
    /\ forms \in InitialStores
    /\ config \in SampleConfigs \cup {ConfigMissing}
    /\ req = [r \in Reqs |-> IdleReq]
    /\ thread = [r \in Reqs |-> NoThread]
    /\ calls = [r \in Reqs |-> << >>]
    /\ next_id = 0
    /\ fn_in = NoInput
    /\ fn_out = NoOutput
    /\ deleter = [d \in Dels |-> NoDeleter]

Next ==
    \/ \E f \in FormIds : GenerateForm(f)
    \/ \E f \in FormIds : DeleteForm(f)
    \/ \E d \in SampleConfigs : SaveConfig(d)
    \/ \E r \in Reqs, f \in FormIds : SubmitNotFound(r, f)
    \/ \E r \in Reqs, f \in FormIds, a \in SampleAnswers : SubmitStart(r, f, a)
    \/ \E r \in Reqs : SubmitReturn(r)
    \/ \E r \in Reqs : WorkerLoadConfig(r)
    \/ \E r \in Reqs : WorkerCreateItem(r)
    \/ \E r \in Reqs : WorkerCreateItemRaises(r)
    \/ \E r \in Reqs : WorkerSkipUpdate(r)
    \/ \E r \in Reqs : WorkerUpdateOk(r)
    \/ \E r \in Reqs : WorkerUpdateRaises(r)

Spec == Init /\ [][Next]_vars

\* a step of the thread of slot r
WorkerStep(r) ==
    \/ WorkerLoadConfig(r)
    \/ WorkerCreateItem(r)
    \/ WorkerCreateItemRaises(r)
    \/ WorkerSkipUpdate(r)
    \/ WorkerUpdateOk(r)
    \/ WorkerUpdateRaises(r)

\* the running system when every started thread is scheduled and every
\* remote call it makes eventually returns or raises
SpecLive == Spec /\ \A r \in Reqs : WF_vars(WorkerStep(r))

-----------------------------------------------------------------------------
(* The two stores on their own, with delete calls taken step by step *)

InitStore ==
    /\ forms \in InitialStores
    /\ config = ConfigBoards
    /\ req = [r \in Reqs |-> IdleReq]
    /\ thread = [r \in Reqs |-> NoThread]
    /\ calls = [r \in Reqs |-> << >>]
    /\ next_id = 0
    /\ fn_in = NoInput
    /\ fn_out = NoOutput
    /\ deleter = [d \in Dels |-> NoDeleter]

NextStore ==
    \/ \E f \in FormIds : GenerateForm(f)
    \/ \E d \in Dels, f \in FormIds : DeleteAbsent(d, f)
    \/ \E d \in Dels, f \in FormIds : DeleteExists(d, f)
    \/ \E d \in Dels : DeleteRemove(d)
    \/ \E d \in Dels : DeleteRemoveRaises(d)
    \/ \E doc \in SampleConfigs : SaveConfig(doc)

SpecStore == InitStore /\ [][NextStore]_vars

-----------------------------------------------------------------------------
(* The pure functions of the thread, over enumerated inputs *)

HeaderKeys == {"Viagem", "Destino", "Data", "Cliente"}

HeaderValues ==
    [Viagem |-> {<< >>, TripX}, Destino |-> {<< >>, Blank, Paris},
     Data |-> {Blank, May1}, Cliente |-> {Acme}]

HeaderDicts == DictsOver(HeaderKeys, HeaderValues)

EventDicts ==
    DictsOver({"pulseId", "pulseName"},
              [pulseId |-> {Pulse999}, pulseName |-> {<< >>, TripA}])

FullHeader ==
    [Viagem |-> TripX, Destino |-> Paris, Data |-> May1, Cliente |-> Acme]

QuestionTypes == {"yesno", "divider", "monday_column"}

\* every single question: each field present with any of its values
WideQuestions ==
    [type : QuestionTypes,
     destination_column : {None, << >>, Blank, colA},
     question_destination_column : {None, Blank, colB},
     column_value : SentinelValues \cup {None, Blank, Hotel, HotelPadded}]
    \cup [type : QuestionTypes]

\* the questions the longer lists are made of
CoreQuestions ==
    [type : QuestionTypes,
     destination_column : {None, colA},
     question_destination_column : {colB},
     column_value : {DadosNaoEncontrados, Hotel}]

\* question lists: the i-th question gets the id QIds[i]
QuestionLists(universe, n) ==
    { [i \in 1..n |-> [id |-> QIds[i]] @@ qs[i]] : qs \in [1..n -> universe] }

\* dicts from some of the keys to the values
AnswersOver(keys, values) == UNION { [S -> values] : S \in SUBSET keys }

WideAnswerValues ==
    {<< >>, Blank, yes, no, Seven, <<" ", "y", "e", "s">>}

CoreAnswerValues == {Seven, yes}

\* an id that is no question's
UnknownId == "zz"

BatchInput(header_data, event, questions, submission_data) ==
    [stored_form_data |->
        [type |-> "guias", header_data |-> header_data,
         webhook_data |-> [event |-> event], questions |-> questions],
     submission_data |-> submission_data]

\* every header and webhook event, with two question lists
HeaderInput(in) ==
    \E h \in HeaderDicts, e \in EventDicts,
       qs \in {<< >>} \cup QuestionLists({[type |-> "yesno",
                                           destination_column |-> colA]}, 1) :
        in = BatchInput(h, e, qs, [q1 |-> yes])

\* every single question with every answer, under two headers
WideInput(in) ==
    \E h \in {EmptyDict, FullHeader},
       qs \in QuestionLists(WideQuestions, 1),
       a \in AnswersOver({"q1"}, WideAnswerValues)
             \cup {[q1 |-> yes, zz |-> yes], [zz |-> yes]} :
        in = BatchInput(h, [pulseId |-> Pulse999], qs, a)

\* every list of up to MaxQuestions core questions with every answer
ListInput(in) ==
    \E n \in 0..MaxQuestions :
        \E qs \in QuestionLists(CoreQuestions, n),
           a \in AnswersOver({QIds[i] : i \in 1..n} \cup {UnknownId},
                             CoreAnswerValues) :
            in = BatchInput(EmptyDict, [pulseId |-> Pulse999], qs, a)

\* the local results for the input: the name given to create_item, the
\* batch, what validate_form_submission says of the submission, and the
\* markup generate_html_form makes of the questions
ApplyFunctions ==
    /\ fn_out = NoOutput
    /\ fn_out' =
          [done |-> TRUE,
           item_name |-> item_name(fn_in.stored_form_data),
           updates_to_process |->
               updates_to_process(fn_in.stored_form_data, fn_in.submission_data),
           errors |->
               validate_form_submission(fn_in.stored_form_data,
                                        fn_in.submission_data),
           html |-> generate_html_form(fn_in.stored_form_data)]
    /\ UNCHANGED <<forms, config, req, thread, calls, next_id, fn_in, deleter>>

InitBatch ==
    /\ forms = EmptyDict
    /\ config = ConfigMissing
    /\ req = [r \in Reqs |-> IdleReq]
    /\ thread = [r \in Reqs |-> NoThread]
    /\ calls = [r \in Reqs |-> << >>]
    /\ next_id = 0
    /\ HeaderInput(fn_in) \/ WideInput(fn_in) \/ ListInput(fn_in)
    /\ fn_out = NoOutput
    /\ deleter = [d \in Dels |-> NoDeleter]

NextBatch == ApplyFunctions

SpecBatch == InitBatch /\ [][NextBatch]_vars

-----------------------------------------------------------------------------
(* Properties of the running system (specification Spec) *)

\* the update_item_column calls of slot r's thread are calls[r][2..]
UpdateIndexes(r) == 2..Len(calls[r])

\* the snapshot's type had a board_b when the thread read the config, and
\* the snapshot's webhook payload carries an item id
HasBoardAndItem(r) ==
    /\ Truthy(Get(thread[r].form_config, "board_b"))
    /\ Truthy(item_id(req[r].stored_form_data))

\* C1: a submission of a form that exists (and can be read) is answered 200,
\* and the handler never waits for its thread: once the thread is started
\* the return is possible whatever state the thread is in (not yet running,
\* running, finished, failed), and in every state the system reaches, also
\* after any remote call succeeded, failed or raised, the answer given stays 200.
C1_SubmitNeverWaits ==
    \A r \in Reqs :
        /\ req[r].pc = "started" => ENABLED SubmitReturn(r)
        /\ (req[r].pc = "returned" /\ req[r].lookup = "readable")
              => req[r].response = 200

\* one request answered 200 while its thread has not run yet, another about
\* to return although its thread has already failed in create_item
C1_Witness ==
    \E r, q \in Reqs :
        /\ req[r].response = 200 /\ thread[r].pc = "start"
        /\ req[q].pc = "started" /\ thread[q].pc = "done"
        /\ thread[q].exit = "error" /\ calls[q] # << >>

\* C2: a thread that found a board_b and an item id issues exactly one
\* create_item call, as its first call; every update_item_column call comes
\* after it and goes to the board_b the thread read from the config and to
\* the item id that create_item call returned.
C2_OneCreateThenUpdates ==
    \A r \in Reqs :
        LET cs == calls[r] IN
        /\ \A k \in 1..Len(cs) : (cs[k].op = "create_item") <=> (k = 1)
        /\ (thread[r].pc \in {"update", "done"} /\ HasBoardAndItem(r))
              => Len(cs) >= 1
        /\ \A k \in UpdateIndexes(r) :
              /\ cs[k].op = "update_item_column"
              /\ cs[k].board_id = thread[r].form_config["board_b"]
              /\ cs[k].board_id = cs[1].board_id
              /\ cs[k].item_id = cs[1].returned

\* a thread that ran to completion with one create_item and two updates
C2_Witness ==
    \E r \in Reqs :
        /\ thread[r].pc = "done" /\ thread[r].exit = "completed"
        /\ HasBoardAndItem(r)
        /\ Len(calls[r]) = 3

\* C3: when create_item raised or returned no item id, the thread is over
\* and create_item is the only call it ever issued: no update_item_column
\* call, no second create_item.
C3_CreateFailureEndsRun ==
    \A r \in Reqs :
        LET cs == calls[r] IN
        (Len(cs) >= 1 /\ (cs[1].raised \/ ~Truthy(cs[1].returned)))
            => thread[r].pc = "done" /\ Len(cs) = 1

\* one thread whose create_item raised, another whose create_item returned
\* a result without an id
C3_Witness ==
    \E r, q \in Reqs :
        /\ Len(calls[r]) = 1 /\ calls[r][1].raised
        /\ Len(calls[q]) = 1 /\ ~calls[q][1].raised
        /\ ~Truthy(calls[q][1].returned)
        /\ thread[q].exit = "create_failed"

\* C4: once the thread has read the config, if the snapshot's type has no
\* (non-empty) board_b there or the snapshot's webhook payload has no
\* event.pulseId, the thread is over and has issued no remote call.
C4_NoBoardOrItemNoCalls ==
    \A r \in Reqs :
        (thread[r].pc \notin {"none", "start"} /\ ~HasBoardAndItem(r))
            => thread[r].pc = "done" /\ calls[r] = << >>

\* one thread ended for want of a board_b, another for want of a pulseId
C4_Witness ==
    \E r, q \in Reqs :
        /\ thread[r].exit = "no_board_b"
        /\ thread[q].exit = "missing"
        /\ Truthy(Get(thread[q].form_config, "board_b"))

\* C5 as claimed: a thread that completed has issued one update_item_column
\* call per entry of its batch, in batch order.
C5_OneCallPerEntry ==
    \A r \in Reqs :
        (thread[r].pc = "done" /\ thread[r].exit = "completed")
            => /\ Len(calls[r]) - 1 = Len(thread[r].updates_to_process)
               /\ \A k \in UpdateIndexes(r) : calls[r][k].entry = k - 1

\* the entries among the first n of a batch that the loop does not skip
SentEntries(updates, n) == {k \in 1..n : ~SkipsUpdate(updates[k])}

\* C5 as amended: the update_item_column calls are issued in batch order,
\* exactly one for each entry passed so far whose value is not blank (an
\* entry whose value is empty or whitespace is passed over with no call and
\* counted neither way); each carries its entry's column and value; every
\* call that raised is counted in failed_updates and every other one in
\* successful_updates; and a thread that is over has passed every entry of
\* its batch, whatever calls failed.
C5_CallsInOrderNoRetry ==
    \A r \in Reqs :
        LET t == thread[r]
            cs == calls[r]
            ups == t.updates_to_process
        IN  t.new_item_id # None =>
            /\ Len(cs) - 1 = Cardinality(SentEntries(ups, t.i - 1))
            /\ \A k \in UpdateIndexes(r) :
                  /\ cs[k].entry \in SentEntries(ups, t.i - 1)
                  /\ k > 2 => cs[k - 1].entry < cs[k].entry
                  /\ cs[k].column_id = ups[cs[k].entry].column_id
                  /\ cs[k].value = ups[cs[k].entry].value
            /\ t.failed_updates =
                  Cardinality({k \in UpdateIndexes(r) : cs[k].raised})
            /\ t.successful_updates =
                  Cardinality({k \in UpdateIndexes(r) : ~cs[k].raised})
            /\ t.pc = "done" => t.i = Len(ups) + 1

\* a completed thread whose first update raised, whose second entry was
\* blank and skipped, and whose third entry was still sent
C5_Witness ==
    \E r \in Reqs :
        /\ thread[r].pc = "done" /\ thread[r].exit = "completed"
        /\ Len(thread[r].updates_to_process) = 3
        /\ Len(calls[r]) = 3
        /\ calls[r][2].raised /\ calls[r][2].entry = 1
        /\ calls[r][3].entry = 3
        /\ thread[r].failed_updates = 1

\* C6: a submission for an id with no file in the Forms folder is answered
\* 404, starts no thread and causes no remote call.
C6_UnknownFormNotFound ==
    \A r \in Reqs :
        req[r].lookup = "absent"
            => /\ req[r].pc = "returned"
               /\ req[r].response = 404
               /\ thread[r].pc = "none"
               /\ calls[r] = << >>

\* a submission answered 404 while another one's thread is issuing calls
C6_Witness ==
    \E r, q \in Reqs :
        /\ req[r].lookup = "absent" /\ req[r].response = 404
        /\ calls[q] # << >>

-----------------------------------------------------------------------------
(* Properties of the batch and the item name (specification SpecBatch) *)

InQuestions == fn_in.stored_form_data.questions
InAnswers == fn_in.submission_data
InHeader == fn_in.stored_form_data.header_data
InEvent == fn_in.stored_form_data.webhook_data.event
Batch == fn_out.updates_to_process

\* the positions of the batch holding the answer of question question_id
AnswerEntries(question_id) ==
    {k \in 1..Len(Batch) :
        Batch[k].description = [kind |-> "answer", of |-> question_id]}

\* the question is answered with something other than blanks
Answered(question) ==
    /\ question.id \in DOMAIN InAnswers
    /\ strip(InAnswers[question.id]) # << >>

\* what the batch is to carry for an answer
Shown(answer) ==
    IF answer = yes THEN Sim ELSE IF answer = no THEN Nao ELSE answer

\* the question contributes exactly one answer entry, with its destination
\* column and the answer as shown, when qualifies, and none otherwise
AnswerEntryIff(question, qualifies) ==
    LET E == AnswerEntries(question.id) IN
    IF qualifies
    THEN /\ Cardinality(E) = 1
         /\ \A k \in E :
               /\ Batch[k].column_id = question.destination_column
               /\ Batch[k].value = Shown(InAnswers[question.id])
    ELSE E = {}

\* the example of the claim: no header field, answers {q1: yes}, q1 a
\* yes/no question mapped to colA
ExampleYesToColA ==
    /\ InHeader = EmptyDict
    /\ InAnswers = [q1 |-> yes]
    /\ InQuestions = << [id |-> "q1", type |-> "yesno",
                         destination_column |-> colA] >>

\* C7 as claimed: a question contributes its answer entry exactly when it
\* is no divider, is answered with a non-blank value and has a non-empty
\* destination column.
C7_AnswerEntryIfColumnNonEmpty ==
    fn_out.done =>
        \A i \in 1..Len(InQuestions) :
            LET q == InQuestions[i] IN
            AnswerEntryIff(q, /\ q.type # "divider"
                              /\ Answered(q)
                              /\ Truthy(Get(q, "destination_column")))

\* C7 as amended: a question contributes its answer entry (its destination
\* column; Sim for yes, Nao for no, the answer itself otherwise) exactly
\* when it is no divider, is answered with a value that is non-empty after
\* trimming and has a destination column that is non-empty after trimming;
\* and in the example the batch is the single entry colA = Sim.
C7_AnswerEntryIfColumnNonBlank ==
    fn_out.done =>
        /\ \A i \in 1..Len(InQuestions) :
              LET q == InQuestions[i] IN
              AnswerEntryIff(q, /\ q.type # "divider"
                                /\ Answered(q)
                                /\ Truthy(Get(q, "destination_column"))
                                /\ strip(q.destination_column) # << >>)
        /\ ExampleYesToColA =>
              /\ Len(Batch) = 1
              /\ Batch[1].column_id = colA
              /\ Batch[1].value = Sim

\* the example has been computed
C7_Witness == fn_out.done /\ ExampleYesToColA /\ Len(Batch) = 1

\* C8: no entry of the batch comes from a question of type divider, neither
\* an answer entry nor a column-text entry.
C8_DividerContributesNothing ==
    fn_out.done =>
        \A i \in 1..Len(InQuestions) :
            InQuestions[i].type = "divider"
                => \A k \in 1..Len(Batch) :
                       Batch[k].description.of # InQuestions[i].id

\* a divider that is answered yes and has both destination columns and a
\* column value, beside a question that does contribute
C8_Witness ==
    /\ fn_out.done
    /\ Len(InQuestions) = 2
    /\ InQuestions[1].type = "divider"
    /\ InQuestions[1].destination_column = colA
    /\ InQuestions[1].question_destination_column = colB
    /\ InQuestions[1].column_value = Hotel
    /\ "q1" \in DOMAIN InAnswers /\ InAnswers["q1"] = yes
    /\ Len(Batch) = 2

\* a field of a dict is present: the key is there with a non-empty value
Present(d, k) == k \in DOMAIN d /\ d[k] # None /\ d[k] # << >>

\* C9: the name given to create_item is the header's Viagem when present,
\* otherwise the event's pulseName when present, otherwise the fallback.
C9_NameByPresence ==
    fn_out.done =>
        fn_out.item_name =
            IF Present(InHeader, "Viagem") THEN InHeader["Viagem"]
            ELSE IF Present(InEvent, "pulseName") THEN InEvent["pulseName"]
            ELSE FallbackName

-----------------------------------------------------------------------------
(* Validation (specification Spec) *)

\* C10: a submission that leaves a required question of the snapshot
\* unanswered or blank is not accepted: no thread is started for it and it
\* is not answered with the success page.
C10_InvalidSubmissionRejected ==
    \A r \in Reqs :
        (/\ req[r].lookup = "readable"
         /\ validate_form_submission(req[r].stored_form_data,
                                     req[r].submission_data) # << >>)
            => thread[r].pc = "none" /\ req[r].response # 200

-----------------------------------------------------------------------------
(* Properties of the stores (specification SpecStore) *)

\* the delete calls made for form_id
DeletersOf(form_id) == {d \in Dels : deleter[d].form_id = form_id}

\* no form has been stored under form_id since the first delete call for it
NotRecreated(form_id) == \A d \in DeletersOf(form_id) : ~deleter[d].recreated

\* C11: once a delete call for an id has returned, and for as long as no
\* form is stored under that id again, get_form_data finds nothing for the
\* id; and when an existing form is deleted twice, the second call starting
\* after the first has returned and no other call being made for the id, the
\* first call returns True and the second False, the second answered 404
\* and not with an error.
C11_DeleteThenGetAbsent ==
    /\ \A d \in Dels :
          (deleter[d].pc = "returned" /\ ~deleter[d].recreated)
              => get_form_data(deleter[d].form_id) = NoneDict
    /\ \A d, e \in Dels :
          (/\ deleter[d].pc = "returned" /\ deleter[e].pc = "returned"
           /\ deleter[e].form_id = deleter[d].form_id
           /\ NotRecreated(deleter[d].form_id)
           /\ DeletersOf(deleter[d].form_id) = {d, e}
           /\ deleter[d].exists
           /\ d \in deleter[e].after)
              => /\ deleter[d].result = "True" /\ deleter[d].status = 200
                 /\ deleter[e].result = "False" /\ deleter[e].status = 404

\* an existing form deleted twice in sequence
C11_Witness ==
    \E d, e \in Dels :
        /\ deleter[d].pc = "returned" /\ deleter[e].pc = "returned"
        /\ deleter[d].form_id = "f1" /\ deleter[e].form_id = "f1"
        /\ NotRecreated("f1")
        /\ deleter[d].exists /\ d \in deleter[e].after
        /\ deleter[e].result = "False"
        /\ get_form_data("f1") = NoneDict

\* C19: when all the delete calls made for one id have returned, at least
\* one of them found the form and no form was stored under the id meanwhile,
\* then, however their tests and removals were interleaved, exactly one call
\* returned True, every other returned False, none was answered with an
\* error and the form is absent.
C19_ConcurrentDeletesOneWins ==
    \A f \in FormIds :
        LET D == DeletersOf(f) IN
        (/\ NotRecreated(f)
         /\ \A d \in D : deleter[d].pc = "returned"
         /\ \E d \in D : deleter[d].exists)
            => /\ Cardinality({d \in D : deleter[d].result = "True"}) = 1
               /\ \A d \in D : deleter[d].result \in {"True", "False"}
               /\ \A d \in D : deleter[d].status \in {200, 404}
               /\ \A d \in D : (deleter[d].status = 200)
                                   <=> (deleter[d].result = "True")
               /\ f \notin DOMAIN forms

\* two calls that both found the file before either removed it: the later
\* removal raised and that call returned False
C19_Witness ==
    \E d, e \in Dels :
        /\ d # e
        /\ deleter[d].form_id = "f1" /\ deleter[e].form_id = "f1"
        /\ NotRecreated("f1")
        /\ deleter[d].exists /\ deleter[e].exists
        /\ d \notin deleter[e].after /\ e \notin deleter[d].after
        /\ deleter[d].result = "True" /\ deleter[e].result = "False"
        /\ "f1" \notin DOMAIN forms

-----------------------------------------------------------------------------
(* Further properties of the running system (specification Spec) *)

\* what generate_form stored under form_id
StoredForm(form_id) == [id |-> form_id, status |-> "active"] @@ DataOf(form_id)

\* C12: the remote calls of a thread are those of the form as it was stored
\* when the submission was handled and of the answers posted with it: the
\* create_item call carries that form's item name, every update call the
\* column and value of an entry of that form's batch, and a completed thread
\* has sent exactly the non-blank entries of that batch; this holds whether
\* or not the form is still in the Form Store and whatever the other
\* threads do.
C12_RunUsesItsSnapshot ==
    \A r \in Reqs :
        thread[r].pc # "none" =>
            LET snapshot == StoredForm(req[r].form_id)
                ups == updates_to_process(snapshot, req[r].submission_data)
                cs == calls[r]
            IN  /\ req[r].stored_form_data = snapshot
                /\ Len(cs) >= 1 => cs[1].item_name = item_name(snapshot)
                /\ \A k \in UpdateIndexes(r) :
                      /\ cs[k].entry \in 1..Len(ups)
                      /\ cs[k].column_id = ups[cs[k].entry].column_id
                      /\ cs[k].value = ups[cs[k].entry].value
                /\ thread[r].exit = "completed"
                      => {cs[k].entry : k \in UpdateIndexes(r)}
                             = SentEntries(ups, Len(ups))

\* a thread that completed with all its calls although its form has been
\* deleted, while the other slot's thread, for the same form, is in the
\* middle of its updates
C12_Witness ==
    \E r, q \in Reqs :
        /\ r # q
        /\ req[r].form_id = "f1" /\ req[q].form_id = "f1"
        /\ "f1" \notin DOMAIN forms
        /\ thread[r].exit = "completed" /\ Len(calls[r]) = 3
        /\ thread[q].pc = "update" /\ Len(calls[q]) = 2

-----------------------------------------------------------------------------
(* Further properties of the batch (specification SpecBatch) *)

\* the positions of the batch holding the column text of question_id
ColumnTextEntries(question_id) ==
    {k \in 1..Len(Batch) :
        Batch[k].description = [kind |-> "column_text", of |-> question_id]}

\* the display value baked into a monday_column question is there and is
\* none of the four error texts
ShowsValue(question) ==
    /\ Truthy(Get(question, "column_value"))
    /\ question.column_value \notin
          {DadosNaoEncontrados, ErroAoCarregarDados,
           DadosNaoDisponiveis, ConfiguracaoIncompleta}

\* the question contributes exactly one column-text entry, with its
\* secondary destination column and its display value, when qualifies, and
\* none otherwise
ColumnTextEntryIff(question, qualifies) ==
    LET E == ColumnTextEntries(question.id) IN
    IF qualifies
    THEN /\ Cardinality(E) = 1
         /\ \A k \in E :
               /\ Batch[k].column_id = question.question_destination_column
               /\ Batch[k].value = question.column_value
    ELSE E = {}

\* C13 as claimed: a monday_column question contributes its column-text
\* entry exactly when its secondary destination column is non-empty and its
\* display value is non-empty and no error text, answered or not.
C13_ColumnTextIfColumnNonEmpty ==
    fn_out.done =>
        \A i \in 1..Len(InQuestions) :
            LET q == InQuestions[i] IN
            q.type = "monday_column" =>
                ColumnTextEntryIff(q,
                    /\ Truthy(Get(q, "question_destination_column"))
                    /\ ShowsValue(q))

\* C13 as amended: a monday_column question contributes its column-text
\* entry (its secondary destination column, its display value) exactly when
\* its secondary destination column is non-empty after trimming and its
\* display value is non-empty and none of the four error texts, whether or
\* not the question is answered; a question of another type contributes no
\* such entry.
C13_ColumnTextIfColumnNonBlank ==
    fn_out.done =>
        \A i \in 1..Len(InQuestions) :
            LET q == InQuestions[i] IN
            ColumnTextEntryIff(q,
                /\ q.type = "monday_column"
                /\ Truthy(Get(q, "question_destination_column"))
                /\ strip(q.question_destination_column) # << >>
                /\ ShowsValue(q))

\* an unanswered monday_column question with a secondary column and a
\* display value, whose entry is the whole batch
C13_Witness ==
    /\ fn_out.done
    /\ Len(InQuestions) = 1
    /\ InQuestions[1].type = "monday_column"
    /\ Get(InQuestions[1], "question_destination_column") = colB
    /\ Get(InQuestions[1], "column_value") = Hotel
    /\ "q1" \notin DOMAIN InAnswers
    /\ InHeader = EmptyDict
    /\ Len(Batch) = 1 /\ Batch[1].column_id = colB /\ Batch[1].value = Hotel

-----------------------------------------------------------------------------
(* Answers under unknown keys (specification Spec) *)

\* the ids of the questions of a form
QuestionIds(stored_form_data) ==
    {stored_form_data.questions[i].id :
        i \in 1..Len(stored_form_data.questions)}

\* the answers posted under a question's id
KnownAnswers(stored_form_data, submission_data) ==
    [k \in DOMAIN submission_data \cap QuestionIds(stored_form_data)
        |-> submission_data[k]]

\* the submission of slot r carries an answer under a key that is no
\* question's id
HasUnknownKey(r) ==
    /\ req[r].lookup = "readable"
    /\ DOMAIN req[r].submission_data
          \ QuestionIds(req[r].stored_form_data) # {}

\* C14: a submission with answers under keys that are no question's id is
\* treated as if those answers were not there: it is answered 200, the
\* batch of its thread is the batch of the other answers alone, every
\* update call is for an entry of that batch, and the thread ends in an
\* error only when the config file is missing or create_item raised.
C14_UnknownKeysIgnored ==
    \A r \in Reqs :
        HasUnknownKey(r) =>
            LET ups == updates_to_process(
                           req[r].stored_form_data,
                           KnownAnswers(req[r].stored_form_data,
                                        req[r].submission_data))
                cs == calls[r]
            IN  /\ thread[r].pc # "none"
                /\ req[r].pc = "returned" => req[r].response = 200
                /\ thread[r].new_item_id # None
                      => thread[r].updates_to_process = ups
                /\ \A k \in UpdateIndexes(r) :
                      /\ cs[k].entry \in 1..Len(ups)
                      /\ cs[k].column_id = ups[cs[k].entry].column_id
                      /\ cs[k].value = ups[cs[k].entry].value
                /\ thread[r].exit = "error"
                      => \/ cs = << >> /\ thread[r].form_config = NoneDict
                         \/ Len(cs) = 1 /\ cs[1].raised

\* a submission with an answer under zz, answered 200, whose thread
\* completed with the header update and the answer of q1
C14_Witness ==
    \E r \in Reqs :
        /\ HasUnknownKey(r)
        /\ "zz" \in DOMAIN req[r].submission_data
        /\ req[r].response = 200
        /\ thread[r].exit = "completed"
        /\ Len(calls[r]) = 3
        /\ calls[r][3].value = Sim

-----------------------------------------------------------------------------
(* The stores under submissions (specification Spec) *)

\* a step of a submit_form invocation or of a thread
SubmitOrWorkerStep ==
    req' # req \/ thread' # thread \/ calls' # calls \/ next_id' # next_id

\* C15: no step of submit_form or of a thread changes the Forms folder or
\* the config file, and every form in the folder is as generate_form stored
\* it, its status included, however many submissions and threads have run.
C15_SubmitAndWorkerWriteNoStore ==
    /\ [](\A f \in DOMAIN forms :
             forms[f] = Unreadable \/ forms[f] = StoredForm(f))
    /\ [][SubmitOrWorkerStep => (forms' = forms /\ config' = config)]_vars

\* both submissions answered, one thread completed with all its calls, and
\* the form and the config are still what they were
C15_Witness ==
    /\ \A r \in Reqs : req[r].response = 200 /\ req[r].form_id = "f1"
    /\ \E r \in Reqs : thread[r].exit = "completed" /\ Len(calls[r]) = 3
    /\ "f1" \in DOMAIN forms /\ forms["f1"] = StoredForm("f1")
    /\ forms["f1"].status = "active"
    /\ config = ConfigBoards

-----------------------------------------------------------------------------
(* Properties of the markup (specification SpecBatch) *)

Html == fn_out.html

\* the display value is empty, null, whitespace only or an error text
HiddenValue(column_value) ==
    \/ column_value \in {None, << >>}
    \/ strip(column_value) = << >>
    \/ column_value \in {DadosNaoEncontrados, ErroAoCarregarDados,
                         DadosNaoDisponiveis, ConfiguracaoIncompleta}

\* the markup of question i is one rating widget with the choices 1 to 10
\* and the label
OneRating(i, label) ==
    /\ Len(Html[i]) = 1
    /\ Html[i][1].kind = "rating"
    /\ Html[i][1].choices = <<1, 2, 3, 4, 5, 6, 7, 8, 9, 10>>
    /\ Html[i][1].label = label

\* C17 as claimed: a monday_column question is rendered as nothing when its
\* display value is empty, null, whitespace only or an error text, and
\* otherwise as a rating widget with the choices 1 to 10 whose label is the
\* display value.
C17_RatingLabelledWithValue ==
    fn_out.done =>
        \A i \in 1..Len(InQuestions) :
            LET q == InQuestions[i]
                v == GetOr(q, "column_value", << >>)
            IN  q.type = "monday_column" =>
                    IF HiddenValue(v) THEN Html[i] = << >>
                    ELSE OneRating(i, v)

\* C17 as amended: a monday_column question is rendered as nothing when its
\* display value is empty, null, whitespace only or one of the four error
\* texts, and otherwise as a rating widget with the choices 1 to 10 whose
\* label is the display value without its leading and trailing whitespace.
C17_RatingLabelledWithTrimmedValue ==
    fn_out.done =>
        \A i \in 1..Len(InQuestions) :
            LET q == InQuestions[i]
                v == GetOr(q, "column_value", << >>)
            IN  q.type = "monday_column" =>
                    IF HiddenValue(v) THEN Html[i] = << >>
                    ELSE OneRating(i, strip(v))

\* a list with a monday_column question whose value is an error text,
\* rendered as nothing, and one whose value is Hotel, rendered as a rating
C17_Witness ==
    /\ fn_out.done
    /\ Len(InQuestions) = 2
    /\ InQuestions[1].type = "monday_column"
    /\ InQuestions[1].column_value = DadosNaoEncontrados
    /\ Html[1] = << >>
    /\ InQuestions[2].type = "monday_column"
    /\ InQuestions[2].column_value = Hotel
    /\ OneRating(2, Hotel)

\* C18: the markup of a divider has no input named by the question's id.
C18_DividerHasNoInput ==
    fn_out.done =>
        \A i \in 1..Len(InQuestions) :
            InQuestions[i].type = "divider"
                => \A k \in 1..Len(Html[i]) :
                       Html[i][k].name # InQuestions[i].id

-----------------------------------------------------------------------------
(* Termination of the threads (specification SpecLive) *)

\* the calls of slot r's thread are bounded by its batch: at most one
\* create_item, at most one update call for each entry and none for
\* anything else, and once the thread is over its two counters add up to
\* the number of update calls it issued
CallsWithinBatch(r) ==
    LET cs == calls[r]
        t == thread[r]
        updates == {k \in 1..Len(cs) : cs[k].op = "update_item_column"}
    IN  /\ Cardinality({k \in 1..Len(cs) : cs[k].op = "create_item"}) <= 1
        /\ \A k \in updates : cs[k].entry \in 1..Len(t.updates_to_process)
        /\ \A k, l \in updates : cs[k].entry = cs[l].entry => k = l
        /\ Cardinality(updates) <= Len(t.updates_to_process)
        /\ t.pc = "done"
              => t.successful_updates + t.failed_updates = Cardinality(updates)

\* C20: every thread that has been started eventually ends, and at every
\* moment its calls are within its batch: at most one create_item call, at
\* most one update call per entry, and at the end succeeded + failed is the
\* number of update calls issued, which is at most the size of the batch.
C20_WorkerTerminates ==
    /\ [](\A r \in Reqs : CallsWithinBatch(r))
    /\ \A r \in Reqs : (thread[r].pc # "none") ~> (thread[r].pc = "done")

\* a thread that ended after one create_item and two update calls, one of
\* which raised, for a batch of three entries
C20_Witness ==
    \E r \in Reqs :
        /\ thread[r].pc = "done" /\ thread[r].exit = "completed"
        /\ Len(thread[r].updates_to_process) = 3
        /\ Len(calls[r]) = 3
        /\ thread[r].successful_updates = 1 /\ thread[r].failed_updates = 1

====
